---- MODULE Spec2Model ----
(***************************************************************************)
(* TenantDataService (data/service/TenantDataService.go): CRUD handlers    *)
(* for the tenant and application tables of a Cassandra keyspace.          *)
(*                                                                         *)
(* A system.UUID is modelled as a number 0..MaxUUID; its raw form is the   *)
(* sequence of its two hexadecimal digits and its canonical text the       *)
(* sequence of the two digit characters.  Rows are keyed by the raw form   *)
(* (gocql.UUID); the driver turns a textual parameter into the raw form.   *)
(***************************************************************************)
EXTENDS Integers, Sequences, FiniteSets, TLC

\* Largest identifier value of the model (identifiers are 0..MaxUUID).
MaxUUID == 3
\* Number of calls the concurrent callers start in one run.
MaxCalls == 4

UUIDs == 0..MaxUUID
EmptyUUID == 0
SecretKeys == {"s3cr3t", "k3y"}
Names == {"billing", "crm"}

\* contract.Tenant and contract.Application values
Tenants == [SecretKey : SecretKeys]
Applications == [Name : Names]
EmptyTenant == [SecretKey |-> ""]
EmptyApplication == [Name |-> ""]

\* Where a collaborator may fail during one call: session creation
\* ("session"), the n-th statement executed on the session ("stmt1" ..) or,
\* in the two Create handlers, the identifier generator ("uuid").  Faults1,
\* Faults2, Faults3: what a handler executing at most one, two or three
\* statements can meet.
Faults1 == {"none", "session", "stmt1"}
Faults2 == Faults1 \cup {"stmt2"}
Faults3 == Faults2 \cup {"stmt3"}

VARIABLES
    tenant,          \* table tenant: rows [tenant_id, secret_key]
    application,     \* table application: rows [tenant_id, application_id, name]
    generated,       \* identifiers the generator has handed out
    openSessions,    \* sessions created and not yet closed
    written,         \* per tenant id: the record last written by a successful call
    updatedTenants,  \* tenant ids a successful UpdateTenant has written
    createdTenants,  \* tenant ids a CreateTenant has inserted
    createdApps,     \* <<tenant id, application id>> a CreateApplication has inserted
    deletedTenants,  \* tenant ids removed by a successful DeleteTenant
    deletedApps,     \* <<tenant id, application id>> removed by a successful DeleteApplication
    procs,           \* concurrent callers: the call each has in flight
    started          \* number of calls the concurrent callers have started

vars == <<tenant, application, generated, openSessions, written, updatedTenants,
          createdTenants, createdApps, deletedTenants, deletedApps, procs, started>>

---------------------------------------------------------------------------
\* Identifier conversions

HexDigits == <<"0", "1", "2", "3", "4", "5", "6", "7",
               "8", "9", "a", "b", "c", "d", "e", "f">>

HexValue(c) == CHOOSE i \in 0..15 : HexDigits[i + 1] = c

\* system.UUID.Bytes(): the raw form
UUIDBytes(uuid) == <<uuid \div 16, uuid % 16>>

\* system.UUID.String(): the canonical text
UUIDString(uuid) == <<HexDigits[(uuid \div 16) + 1], HexDigits[(uuid % 16) + 1]>>

ZeroGocqlUUID == <<0, 0>>

\* gocql.UUIDFromBytes: the raw form copied; an input of the wrong length
\* gives the zero UUID and an error the callers drop.
GocqlUUIDFromBytes(input) ==
    IF Len(input) = Len(ZeroGocqlUUID) THEN input ELSE ZeroGocqlUUID

\* The driver binding a textual parameter to a uuid column (gocql.ParseUUID).
MarshalUUIDText(text) == <<HexValue(text[1]), HexValue(text[2])>>

\* Faulty variant: the raw form taken in the opposite byte order.
mapSystemUUIDToGocqlUUIDReversed(uuid) == <<uuid % 16, uuid \div 16>>

mapSystemUUIDToGocqlUUID(uuid) == GocqlUUIDFromBytes(UUIDBytes(uuid))

\* system.UUIDFromBytes(uuid.Bytes()), the error dropped
mapGocqlUUIDToSystemUUID(uuid) == uuid[1] * 16 + uuid[2]

---------------------------------------------------------------------------
\* Failures

Nil == [kind |-> "nil", ids |-> <<>>]
TenantNotFound(tenantID) ==
    [kind |-> "TenantNotFound", ids |-> <<UUIDString(tenantID)>>]
ApplicationNotFound(tenantID, applicationID) ==
    [kind |-> "ApplicationNotFound",
     ids |-> <<UUIDString(tenantID), UUIDString(applicationID)>>]
UUIDError == [kind |-> "UUIDError", ids |-> <<>>]
SessionError == [kind |-> "SessionError", ids |-> <<>>]
QueryError == [kind |-> "QueryError", ids |-> <<>>]

NoValue == [id |-> EmptyUUID, tenant |-> EmptyTenant,
            application |-> EmptyApplication, applications |-> <<>>]

\* What one call did: the tables it leaves, what it returned, the session
\* events in order, the failure a collaborator raised (Nil: none did) and
\* whether it took an identifier from the generator.
Outcome(tt, at, err, value, log, raised, usedUUID) ==
    [tenant |-> tt, application |-> at, err |-> err, value |-> value,
     log |-> log, raised |-> raised, usedUUID |-> usedUUID]

---------------------------------------------------------------------------
\* Statements, as the store executes them

\* SELECT secret_key FROM tenant WHERE tenant_id = ?
SelectTenant(tt, key) == {r \in tt : r.tenant_id = key}

\* INSERT INTO tenant (tenant_id, secret_key) VALUES(?, ?): an upsert on the key
InsertTenant(tt, key, secretKey) ==
    {r \in tt : r.tenant_id # key}
        \cup {[tenant_id |-> key, secret_key |-> secretKey]}

\* DELETE FROM tenant WHERE tenant_id = ?
DeleteTenantRow(tt, key) == {r \in tt : r.tenant_id # key}

\* SELECT name FROM application WHERE tenant_id = ? AND application_id = ?
SelectApplication(at, tkey, akey) ==
    {r \in at : r.tenant_id = tkey /\ r.application_id = akey}

\* SELECT application_id, name FROM application WHERE tenant_id = ?
SelectApplications(at, tkey) == {r \in at : r.tenant_id = tkey}

\* INSERT INTO application (tenant_id, application_id, name) VALUES(?, ?, ?)
InsertApplication(at, tkey, akey, name) ==
    {r \in at : ~(r.tenant_id = tkey /\ r.application_id = akey)}
        \cup {[tenant_id |-> tkey, application_id |-> akey, name |-> name]}

\* DELETE FROM application WHERE tenant_id = ? AND application_id = ?
DeleteApplicationRow(at, tkey, akey) ==
    {r \in at : ~(r.tenant_id = tkey /\ r.application_id = akey)}

---------------------------------------------------------------------------
\* Helpers of the service.  ok: the statement's execution does not fail.

\* session, err := CreateSession(); defer session.Close(): the session's
\* events around the statements the handler executes on it.
WithSession(statements) == <<"open">> \o statements \o <<"close">>

\* An INSERT whose execution fails is taken to have written nothing.
addOrUpdateTenant(tenantID, t, tt, ok) ==
    IF ok
    THEN [table |-> InsertTenant(tt, mapSystemUUIDToGocqlUUID(tenantID), t.SecretKey),
          err |-> Nil]
    ELSE [table |-> tt, err |-> QueryError]

\* iter.Scan is false when no row came back, also when the query failed.
readTenant(tenantID, tt, ok) ==
    LET rows == IF ok THEN SelectTenant(tt, MarshalUUIDText(UUIDString(tenantID)))
                      ELSE {}
    IN  IF rows = {}
        THEN [tenant |-> EmptyTenant, err |-> TenantNotFound(tenantID)]
        ELSE [tenant |-> [SecretKey |-> (CHOOSE r \in rows : TRUE).secret_key],
              err |-> Nil]

\* Faulty variant: any answer of the query counts as a row.
doesTenantExistAnyAnswer(tenantID, tt, ok) == ok

doesTenantExist(tenantID, tt, ok) ==
    ok /\ SelectTenant(tt, MarshalUUIDText(UUIDString(tenantID))) # {}

addOrUpdateApplication(tenantID, applicationID, a, at, ok) ==
    IF ok
    THEN [table |-> InsertApplication(at, mapSystemUUIDToGocqlUUID(tenantID),
                        mapSystemUUIDToGocqlUUID(applicationID), a.Name),
          err |-> Nil]
    ELSE [table |-> at, err |-> QueryError]

readApplication(tenantID, applicationID, at, ok) ==
    LET rows == IF ok
                THEN SelectApplication(at, MarshalUUIDText(UUIDString(tenantID)),
                         MarshalUUIDText(UUIDString(applicationID)))
                ELSE {}
    IN  IF rows = {}
        THEN [application |-> EmptyApplication,
              err |-> ApplicationNotFound(tenantID, applicationID)]
        ELSE [application |-> [Name |-> (CHOOSE r \in rows : TRUE).name],
              err |-> Nil]

\* Faulty variant: the SELECT without its WHERE tenant_id = ? restriction.
readAllApplicationsEveryTenant(tenantID, at, ok, fetched) ==
    LET rows == IF ok THEN at ELSE at \cap fetched
        ids == {mapGocqlUUIDToSystemUUID(r.application_id) : r \in rows}
    IN  [id \in ids |->
            [Name |-> (CHOOSE r \in rows :
                          mapGocqlUUIDToSystemUUID(r.application_id) = id).name]]

\* The rows scanned become the map; a query that fails part-way leaves the
\* rows scanned before the failure (fetched), and no error is returned.
readAllApplications(tenantID, at, ok, fetched) ==
    LET all == SelectApplications(at, MarshalUUIDText(UUIDString(tenantID)))
        rows == IF ok THEN all ELSE all \cap fetched
        ids == {mapGocqlUUIDToSystemUUID(r.application_id) : r \in rows}
    IN  [id \in ids |->
            [Name |-> (CHOOSE r \in rows :
                          mapGocqlUUIDToSystemUUID(r.application_id) = id).name]]

doesApplicationExist(tenantID, applicationID, at, ok) ==
    ok /\ SelectApplication(at, MarshalUUIDText(UUIDString(tenantID)),
              MarshalUUIDText(UUIDString(applicationID))) # {}

---------------------------------------------------------------------------
\* The nine handlers, each as the outcome of one whole call on tables tt, at.
\* fault: where a collaborator fails; newID: what the generator returns.

CreateTenant(t, tt, at, fault, newID) ==
    IF fault = "uuid"
    THEN Outcome(tt, at, UUIDError, NoValue, <<>>, UUIDError, FALSE)
    ELSE IF fault = "session"
    THEN Outcome(tt, at, SessionError, NoValue, <<>>, SessionError, TRUE)
    ELSE LET w == addOrUpdateTenant(newID, t, tt, fault # "stmt1")
         IN  Outcome(w.table, at, w.err, [NoValue EXCEPT !.id = newID],
                     WithSession(<<"query">>), w.err, TRUE)

\* Faulty variant: the tenant written without the existence check.
UpdateTenantUpsert(tenantID, t, tt, at, fault) ==
    IF fault = "session"
    THEN Outcome(tt, at, SessionError, NoValue, <<>>, SessionError, FALSE)
    ELSE LET w == addOrUpdateTenant(tenantID, t, tt, fault # "stmt1")
         IN  Outcome(w.table, at, w.err, NoValue, WithSession(<<"query">>),
                     w.err, FALSE)

UpdateTenant(tenantID, t, tt, at, fault) ==
    IF fault = "session"
    THEN Outcome(tt, at, SessionError, NoValue, <<>>, SessionError, FALSE)
    ELSE IF ~doesTenantExist(tenantID, tt, fault # "stmt1")
    THEN Outcome(tt, at, TenantNotFound(tenantID), NoValue,
                 WithSession(<<"query">>),
                 IF fault = "stmt1" THEN QueryError ELSE Nil, FALSE)
    ELSE LET w == addOrUpdateTenant(tenantID, t, tt, fault # "stmt2")
         IN  Outcome(w.table, at, w.err, NoValue,
                     WithSession(<<"query", "query">>), w.err, FALSE)

ReadTenant(tenantID, tt, at, fault) ==
    IF fault = "session"
    THEN Outcome(tt, at, SessionError, NoValue, <<>>, SessionError, FALSE)
    ELSE LET r == readTenant(tenantID, tt, fault # "stmt1")
         IN  Outcome(tt, at, r.err, [NoValue EXCEPT !.tenant = r.tenant],
                     WithSession(<<"query">>),
                     IF fault = "stmt1" THEN QueryError ELSE Nil, FALSE)

DeleteTenant(tenantID, tt, at, fault) ==
    IF fault = "session"
    THEN Outcome(tt, at, SessionError, NoValue, <<>>, SessionError, FALSE)
    ELSE IF ~doesTenantExist(tenantID, tt, fault # "stmt1")
    THEN Outcome(tt, at, TenantNotFound(tenantID), NoValue,
                 WithSession(<<"query">>),
                 IF fault = "stmt1" THEN QueryError ELSE Nil, FALSE)
    ELSE IF fault = "stmt2"
    THEN Outcome(tt, at, QueryError, NoValue,
                 WithSession(<<"query", "query">>), QueryError, FALSE)
    ELSE Outcome(DeleteTenantRow(tt, mapSystemUUIDToGocqlUUID(tenantID)), at,
                 Nil, NoValue, WithSession(<<"query", "query">>), Nil, FALSE)

\* Faulty variant: the return on a failed identifier generation leaves the session
\* open.
CreateApplicationLeak(tenantID, a, tt, at, fault, newID) ==
    IF fault = "session"
    THEN Outcome(tt, at, SessionError, NoValue, <<>>, SessionError, FALSE)
    ELSE IF ~doesTenantExist(tenantID, tt, fault # "stmt1")
    THEN Outcome(tt, at, TenantNotFound(tenantID), NoValue,
                 WithSession(<<"query">>),
                 IF fault = "stmt1" THEN QueryError ELSE Nil, FALSE)
    ELSE IF fault = "uuid"
    THEN Outcome(tt, at, UUIDError, NoValue, <<"open", "query">>,
                 UUIDError, FALSE)
    ELSE LET w == addOrUpdateApplication(tenantID, newID, a, at, fault # "stmt2")
         IN  Outcome(tt, w.table, w.err, [NoValue EXCEPT !.id = newID],
                     WithSession(<<"query", "query">>), w.err, TRUE)

CreateApplication(tenantID, a, tt, at, fault, newID) ==
    IF fault = "session"
    THEN Outcome(tt, at, SessionError, NoValue, <<>>, SessionError, FALSE)
    ELSE IF ~doesTenantExist(tenantID, tt, fault # "stmt1")
    THEN Outcome(tt, at, TenantNotFound(tenantID), NoValue,
                 WithSession(<<"query">>),
                 IF fault = "stmt1" THEN QueryError ELSE Nil, FALSE)
    ELSE IF fault = "uuid"
    THEN Outcome(tt, at, UUIDError, NoValue, WithSession(<<"query">>),
                 UUIDError, FALSE)
    ELSE LET w == addOrUpdateApplication(tenantID, newID, a, at, fault # "stmt2")
         IN  Outcome(tt, w.table, w.err, [NoValue EXCEPT !.id = newID],
                     WithSession(<<"query", "query">>), w.err, TRUE)

\* Faulty variant: the row is written before the application's existence is checked.
UpdateApplicationInsertFirst(tenantID, applicationID, a, tt, at, fault) ==
    IF fault = "session"
    THEN Outcome(tt, at, SessionError, NoValue, <<>>, SessionError, FALSE)
    ELSE IF ~doesTenantExist(tenantID, tt, fault # "stmt1")
    THEN Outcome(tt, at, TenantNotFound(tenantID), NoValue,
                 WithSession(<<"query">>),
                 IF fault = "stmt1" THEN QueryError ELSE Nil, FALSE)
    ELSE LET w == addOrUpdateApplication(tenantID, applicationID, a, at,
                                         fault # "stmt2")
         IN  IF w.err # Nil
             THEN Outcome(tt, at, w.err, NoValue,
                          WithSession(<<"query", "query">>), w.err, FALSE)
             ELSE IF ~doesApplicationExist(tenantID, applicationID, at,
                                           fault # "stmt3")
             THEN Outcome(tt, w.table,
                          ApplicationNotFound(tenantID, applicationID), NoValue,
                          WithSession(<<"query", "query", "query">>),
                          IF fault = "stmt3" THEN QueryError ELSE Nil, FALSE)
             ELSE Outcome(tt, w.table, Nil, NoValue,
                          WithSession(<<"query", "query", "query">>), Nil, FALSE)

UpdateApplication(tenantID, applicationID, a, tt, at, fault) ==
    IF fault = "session"
    THEN Outcome(tt, at, SessionError, NoValue, <<>>, SessionError, FALSE)
    ELSE IF ~doesTenantExist(tenantID, tt, fault # "stmt1")
    THEN Outcome(tt, at, TenantNotFound(tenantID), NoValue,
                 WithSession(<<"query">>),
                 IF fault = "stmt1" THEN QueryError ELSE Nil, FALSE)
    ELSE IF ~doesApplicationExist(tenantID, applicationID, at, fault # "stmt2")
    THEN Outcome(tt, at, ApplicationNotFound(tenantID, applicationID), NoValue,
                 WithSession(<<"query", "query">>),
                 IF fault = "stmt2" THEN QueryError ELSE Nil, FALSE)
    ELSE LET w == addOrUpdateApplication(tenantID, applicationID, a, at,
                                         fault # "stmt3")
         IN  Outcome(tt, w.table, w.err, NoValue,
                     WithSession(<<"query", "query", "query">>), w.err, FALSE)

\* Faulty variant: the application is read without the tenant's existence check.
ReadApplicationNoTenantCheck(tenantID, applicationID, tt, at, fault) ==
    IF fault = "session"
    THEN Outcome(tt, at, SessionError, NoValue, <<>>, SessionError, FALSE)
    ELSE LET r == readApplication(tenantID, applicationID, at, fault # "stmt1")
         IN  Outcome(tt, at, r.err, [NoValue EXCEPT !.application = r.application],
                     WithSession(<<"query">>),
                     IF fault = "stmt1" THEN QueryError ELSE Nil, FALSE)

ReadApplication(tenantID, applicationID, tt, at, fault) ==
    IF fault = "session"
    THEN Outcome(tt, at, SessionError, NoValue, <<>>, SessionError, FALSE)
    ELSE IF ~doesTenantExist(tenantID, tt, fault # "stmt1")
    THEN Outcome(tt, at, TenantNotFound(tenantID), NoValue,
                 WithSession(<<"query">>),
                 IF fault = "stmt1" THEN QueryError ELSE Nil, FALSE)
    ELSE LET r == readApplication(tenantID, applicationID, at, fault # "stmt2")
         IN  Outcome(tt, at, r.err, [NoValue EXCEPT !.application = r.application],
                     WithSession(<<"query", "query">>),
                     IF fault = "stmt2" THEN QueryError ELSE Nil, FALSE)

ReadAllApplications(tenantID, tt, at, fault, fetched) ==
    IF fault = "session"
    THEN Outcome(tt, at, SessionError, NoValue, <<>>, SessionError, FALSE)
    ELSE IF ~doesTenantExist(tenantID, tt, fault # "stmt1")
    THEN Outcome(tt, at, TenantNotFound(tenantID), NoValue,
                 WithSession(<<"query">>),
                 IF fault = "stmt1" THEN QueryError ELSE Nil, FALSE)
    ELSE Outcome(tt, at, Nil,
                 [NoValue EXCEPT !.applications =
                      readAllApplications(tenantID, at, fault # "stmt2", fetched)],
                 WithSession(<<"query", "query">>),
                 IF fault = "stmt2" THEN QueryError ELSE Nil, FALSE)

\* Faulty variant: the DELETE without its AND application_id = ? restriction.
DeleteApplicationWholeTenant(tenantID, applicationID, tt, at, fault) ==
    IF fault = "session"
    THEN Outcome(tt, at, SessionError, NoValue, <<>>, SessionError, FALSE)
    ELSE IF ~doesTenantExist(tenantID, tt, fault # "stmt1")
    THEN Outcome(tt, at, TenantNotFound(tenantID), NoValue,
                 WithSession(<<"query">>),
                 IF fault = "stmt1" THEN QueryError ELSE Nil, FALSE)
    ELSE IF ~doesApplicationExist(tenantID, applicationID, at, fault # "stmt2")
    THEN Outcome(tt, at, ApplicationNotFound(tenantID, applicationID), NoValue,
                 WithSession(<<"query", "query">>),
                 IF fault = "stmt2" THEN QueryError ELSE Nil, FALSE)
    ELSE IF fault = "stmt3"
    THEN Outcome(tt, at, QueryError, NoValue,
                 WithSession(<<"query", "query", "query">>), QueryError, FALSE)
    ELSE Outcome(tt, {r \in at : r.tenant_id # mapSystemUUIDToGocqlUUID(tenantID)},
                 Nil, NoValue, WithSession(<<"query", "query", "query">>),
                 Nil, FALSE)

DeleteApplication(tenantID, applicationID, tt, at, fault) ==
    IF fault = "session"
    THEN Outcome(tt, at, SessionError, NoValue, <<>>, SessionError, FALSE)
    ELSE IF ~doesTenantExist(tenantID, tt, fault # "stmt1")
    THEN Outcome(tt, at, TenantNotFound(tenantID), NoValue,
                 WithSession(<<"query">>),
                 IF fault = "stmt1" THEN QueryError ELSE Nil, FALSE)
    ELSE IF ~doesApplicationExist(tenantID, applicationID, at, fault # "stmt2")
    THEN Outcome(tt, at, ApplicationNotFound(tenantID, applicationID), NoValue,
                 WithSession(<<"query", "query">>),
                 IF fault = "stmt2" THEN QueryError ELSE Nil, FALSE)
    ELSE IF fault = "stmt3"
    THEN Outcome(tt, at, QueryError, NoValue,
                 WithSession(<<"query", "query", "query">>), QueryError, FALSE)
    ELSE Outcome(tt, DeleteApplicationRow(at, mapSystemUUIDToGocqlUUID(tenantID),
                         mapSystemUUIDToGocqlUUID(applicationID)),
                 Nil, NoValue, WithSession(<<"query", "query", "query">>),
                 Nil, FALSE)

---------------------------------------------------------------------------
\* Sequential callers: every call runs to completion before the next starts.

Idle == [op |-> "idle", pc |-> "idle", tenantID |-> EmptyUUID,
         applicationID |-> EmptyUUID, t |-> EmptyTenant, a |-> EmptyApplication]

Procs == {"p1", "p2"}

Init ==
    /\ tenant = {}
    /\ application = {}
    /\ generated = {}
    /\ openSessions = 0
    /\ written = [id \in UUIDs |-> EmptyTenant]
    /\ updatedTenants = {}
    /\ createdTenants = {}
    /\ createdApps = {}
    /\ deletedTenants = {}
    /\ deletedApps = {}
    /\ procs = [p \in Procs |-> Idle]
    /\ started = 0

\* GenerateRandomUUID: an identifier never handed out before, and not the
\* empty one.  The handlers only compare identifiers for equality, so which
\* fresh value comes back makes no difference: the model hands out the
\* smallest one.  Callers still pass any identifier, handed out or not.
Fresh == (UUIDs \ {EmptyUUID}) \ generated

GenerateRandomUUID ==
    IF Fresh = {} THEN EmptyUUID
    ELSE CHOOSE id \in Fresh : \A other \in Fresh : id <= other

Count(log, e) == Cardinality({i \in 1..Len(log) : log[i] = e})

\* The call's outcome o takes effect: the tables, the generator, the
\* sessions, and the history of successful writes and deletes.
Complete(op, tenantID, applicationID, t, a, newID, o) ==
    /\ o.usedUUID => newID \in Fresh
    /\ tenant' = o.tenant
    /\ application' = o.application
    /\ generated' = IF o.usedUUID THEN generated \cup {newID} ELSE generated
    /\ openSessions' = openSessions + Count(o.log, "open") - Count(o.log, "close")
    /\ written' =
         IF op \in {"CreateTenant", "UpdateTenant"} /\ o.err = Nil
         THEN [written EXCEPT ![IF op = "CreateTenant" THEN newID ELSE tenantID] = t]
         ELSE IF op = "DeleteTenant" /\ o.err = Nil
         THEN [written EXCEPT ![tenantID] = EmptyTenant]
         ELSE written
    /\ updatedTenants' =
         IF op = "UpdateTenant" /\ o.err = Nil
         THEN updatedTenants \cup {tenantID}
         ELSE IF op = "DeleteTenant" /\ o.err = Nil
         THEN updatedTenants \ {tenantID}
         ELSE updatedTenants
    /\ createdTenants' =
         IF op = "CreateTenant" /\ o.err = Nil
         THEN createdTenants \cup {newID} ELSE createdTenants
    /\ createdApps' =
         IF op = "CreateApplication" /\ o.err = Nil
         THEN createdApps \cup {<<tenantID, newID>>} ELSE createdApps
    /\ deletedTenants' =
         IF op = "DeleteTenant" /\ o.err = Nil
         THEN deletedTenants \cup {tenantID} ELSE deletedTenants
    /\ deletedApps' =
         IF op = "DeleteApplication" /\ o.err = Nil
         THEN deletedApps \cup {<<tenantID, applicationID>>} ELSE deletedApps
    /\ UNCHANGED <<procs, started>>

CallCreateTenant ==
    \E t \in Tenants, fault \in Faults1 \cup {"uuid"} :
        Complete("CreateTenant", EmptyUUID, EmptyUUID, t, EmptyApplication,
                 GenerateRandomUUID,
                 CreateTenant(t, tenant, application, fault, GenerateRandomUUID))

CallUpdateTenant ==
    \E tenantID \in UUIDs, t \in Tenants, fault \in Faults2 :
        Complete("UpdateTenant", tenantID, EmptyUUID, t, EmptyApplication, EmptyUUID,
                 UpdateTenant(tenantID, t, tenant, application, fault))

CallReadTenant ==
    \E tenantID \in UUIDs, fault \in Faults1 :
        Complete("ReadTenant", tenantID, EmptyUUID, EmptyTenant, EmptyApplication,
                 EmptyUUID, ReadTenant(tenantID, tenant, application, fault))

CallDeleteTenant ==
    \E tenantID \in UUIDs, fault \in Faults2 :
        Complete("DeleteTenant", tenantID, EmptyUUID, EmptyTenant, EmptyApplication,
                 EmptyUUID, DeleteTenant(tenantID, tenant, application, fault))

CallCreateApplication ==
    \E tenantID \in UUIDs, a \in Applications,
       fault \in Faults2 \cup {"uuid"} :
        Complete("CreateApplication", tenantID, EmptyUUID, EmptyTenant, a,
                 GenerateRandomUUID,
                 CreateApplication(tenantID, a, tenant, application, fault,
                                   GenerateRandomUUID))

CallUpdateApplication ==
    \E tenantID \in UUIDs, applicationID \in UUIDs, a \in Applications,
       fault \in Faults3 :
        Complete("UpdateApplication", tenantID, applicationID, EmptyTenant, a,
                 EmptyUUID,
                 UpdateApplication(tenantID, applicationID, a, tenant, application,
                                   fault))

CallReadApplication ==
    \E tenantID \in UUIDs, applicationID \in UUIDs, fault \in Faults2 :
        Complete("ReadApplication", tenantID, applicationID, EmptyTenant,
                 EmptyApplication, EmptyUUID,
                 ReadApplication(tenantID, applicationID, tenant, application, fault))

CallReadAllApplications ==
    \E tenantID \in UUIDs, fault \in Faults2 :
        \E fetched \in (IF fault = "stmt2" THEN SUBSET application ELSE {{}}) :
            Complete("ReadAllApplications", tenantID, EmptyUUID, EmptyTenant,
                     EmptyApplication, EmptyUUID,
                     ReadAllApplications(tenantID, tenant, application, fault,
                                         fetched))

CallDeleteApplication ==
    \E tenantID \in UUIDs, applicationID \in UUIDs, fault \in Faults3 :
        Complete("DeleteApplication", tenantID, applicationID, EmptyTenant,
                 EmptyApplication, EmptyUUID,
                 DeleteApplication(tenantID, applicationID, tenant, application,
                                   fault))

Next ==
    \/ CallCreateTenant
    \/ CallUpdateTenant
    \/ CallReadTenant
    \/ CallDeleteTenant
    \/ CallCreateApplication
    \/ CallUpdateApplication
    \/ CallReadApplication
    \/ CallReadAllApplications
    \/ CallDeleteApplication

Spec == Init /\ [][Next]_vars

---------------------------------------------------------------------------
\* Concurrent callers: each call is a session being created, then its
\* statements one at a time, other callers' statements in between.  No
\* collaborator fails here, except the generator once it has no identifier
\* left.  written and updatedTenants, the history of the sequential callers'
\* writes, are not kept.

Request(op, tenantID, applicationID, t, a) ==
    [op |-> op, pc |-> "start", tenantID |-> tenantID,
     applicationID |-> applicationID, t |-> t, a |-> a]

Requests ==
    {Request("CreateTenant", EmptyUUID, EmptyUUID, t, EmptyApplication) :
        t \in Tenants}
    \cup {Request("UpdateTenant", id, EmptyUUID, t, EmptyApplication) :
            id \in UUIDs, t \in Tenants}
    \cup {Request(op, id, EmptyUUID, EmptyTenant, EmptyApplication) :
            op \in {"ReadTenant", "DeleteTenant", "ReadAllApplications"},
            id \in UUIDs}
    \cup {Request("CreateApplication", id, EmptyUUID, EmptyTenant, a) :
            id \in UUIDs, a \in Applications}
    \cup {Request("UpdateApplication", c[1], c[2], EmptyTenant, a) :
            c \in UUIDs \X UUIDs, a \in Applications}
    \cup {Request(op, c[1], c[2], EmptyTenant, EmptyApplication) :
            op \in {"ReadApplication", "DeleteApplication"},
            c \in UUIDs \X UUIDs}

\* The caller's position after its session is created.
FirstStep(op) ==
    IF op = "CreateTenant" THEN "insert"
    ELSE IF op = "ReadTenant" THEN "read"
    ELSE "checkTenant"

\* The caller's position after doesTenantExist has answered true.
AfterTenantCheck(op) ==
    IF op \in {"UpdateTenant", "CreateApplication"} THEN "insert"
    ELSE IF op = "DeleteTenant" THEN "delete"
    ELSE IF op \in {"UpdateApplication", "DeleteApplication"}
    THEN "checkApplication"
    ELSE "read"

\* The caller's position after doesApplicationExist has answered true.
AfterApplicationCheck(op) ==
    IF op = "UpdateApplication" THEN "insert" ELSE "delete"

\* The call returns: the deferred session.Close() runs.
Return(p) ==
    /\ procs' = [procs EXCEPT ![p] = Idle]
    /\ openSessions' = openSessions - 1
    /\ started' = started

\* A call starts: CreateTenant takes its identifier, and the session is
\* created.
Start(p) ==
    /\ procs[p].pc = "idle"
    /\ started < MaxCalls
    /\ started' = started + 1
    /\ \E r \in Requests :
        /\ r.op = "CreateTenant" => Fresh # {}
        /\ procs' = [procs EXCEPT ![p] =
               [r EXCEPT !.pc = FirstStep(r.op),
                         !.tenantID = IF r.op = "CreateTenant"
                                      THEN GenerateRandomUUID ELSE r.tenantID]]
        /\ generated' = IF r.op = "CreateTenant"
                        THEN generated \cup {GenerateRandomUUID} ELSE generated
    /\ openSessions' = openSessions + 1
    /\ UNCHANGED <<tenant, application, written, updatedTenants, createdTenants,
                   createdApps, deletedTenants, deletedApps>>

\* if !doesTenantExist(tenantID, session) { return NotFound }; for
\* CreateApplication the identifier is generated next.
CheckTenant(p) ==
    LET c == procs[p] IN
    /\ c.pc = "checkTenant"
    /\ IF ~doesTenantExist(c.tenantID, tenant, TRUE)
          \/ (c.op = "CreateApplication" /\ Fresh = {})
       THEN Return(p) /\ UNCHANGED generated
       ELSE /\ procs' = [procs EXCEPT ![p] =
                   [c EXCEPT !.pc = AfterTenantCheck(c.op),
                             !.applicationID =
                                 IF c.op = "CreateApplication"
                                 THEN GenerateRandomUUID ELSE c.applicationID]]
            /\ generated' = IF c.op = "CreateApplication"
                            THEN generated \cup {GenerateRandomUUID}
                            ELSE generated
            /\ UNCHANGED <<openSessions, started>>
    /\ UNCHANGED <<tenant, application, written, updatedTenants, createdTenants,
                   createdApps, deletedTenants, deletedApps>>

\* if !doesApplicationExist(tenantID, applicationID, session) { return NotFound }
CheckApplication(p) ==
    LET c == procs[p] IN
    /\ c.pc = "checkApplication"
    /\ IF ~doesApplicationExist(c.tenantID, c.applicationID, application, TRUE)
       THEN Return(p)
       ELSE /\ procs' = [procs EXCEPT ![p] =
                   [c EXCEPT !.pc = AfterApplicationCheck(c.op)]]
            /\ UNCHANGED <<openSessions, started>>
    /\ UNCHANGED <<tenant, application, generated, written, updatedTenants,
                   createdTenants, createdApps, deletedTenants, deletedApps>>

\* addOrUpdateTenant or addOrUpdateApplication, and the call returns.
Insert(p) ==
    LET c == procs[p] IN
    /\ c.pc = "insert"
    /\ IF c.op \in {"CreateTenant", "UpdateTenant"}
       THEN /\ tenant' = addOrUpdateTenant(c.tenantID, c.t, tenant, TRUE).table
            /\ UNCHANGED application
       ELSE /\ application' =
                   addOrUpdateApplication(c.tenantID, c.applicationID, c.a,
                                          application, TRUE).table
            /\ UNCHANGED tenant
    /\ createdTenants' = IF c.op = "CreateTenant"
                          THEN createdTenants \cup {c.tenantID} ELSE createdTenants
    /\ createdApps' = IF c.op = "CreateApplication"
                       THEN createdApps \cup {<<c.tenantID, c.applicationID>>}
                       ELSE createdApps
    /\ Return(p)
    /\ UNCHANGED <<generated, written, updatedTenants, deletedTenants,
                   deletedApps>>

\* The DELETE of DeleteTenant or DeleteApplication, and the call returns.
Delete(p) ==
    LET c == procs[p] IN
    /\ c.pc = "delete"
    /\ IF c.op = "DeleteTenant"
       THEN /\ tenant' = DeleteTenantRow(tenant,
                               mapSystemUUIDToGocqlUUID(c.tenantID))
            /\ deletedTenants' = deletedTenants \cup {c.tenantID}
            /\ UNCHANGED <<application, deletedApps>>
       ELSE /\ application' =
                   DeleteApplicationRow(application,
                       mapSystemUUIDToGocqlUUID(c.tenantID),
                       mapSystemUUIDToGocqlUUID(c.applicationID))
            /\ deletedApps' = deletedApps \cup {<<c.tenantID, c.applicationID>>}
            /\ UNCHANGED <<tenant, deletedTenants>>
    /\ Return(p)
    /\ UNCHANGED <<generated, written, updatedTenants, createdTenants,
                   createdApps>>

\* readTenant, readApplication or readAllApplications, and the call returns.
Read(p) ==
    /\ procs[p].pc = "read"
    /\ Return(p)
    /\ UNCHANGED <<tenant, application, generated, written, updatedTenants,
                   createdTenants, createdApps, deletedTenants, deletedApps>>

NextConc ==
    \E p \in Procs :
        \/ Start(p)
        \/ CheckTenant(p)
        \/ CheckApplication(p)
        \/ Insert(p)
        \/ Delete(p)
        \/ Read(p)

SpecConc == Init /\ [][NextConc]_vars

---------------------------------------------------------------------------
\* Every call a caller can make in the current state, with its outcome.

Call(op, tenantID, applicationID, t, a, fault, o) ==
    [op |-> op, tenantID |-> tenantID, applicationID |-> applicationID,
     t |-> t, a |-> a, fault |-> fault, o |-> o]

CreateTenantCalls ==
    {c \in {Call("CreateTenant", EmptyUUID, EmptyUUID, t, EmptyApplication, f,
                 CreateTenant(t, tenant, application, f, GenerateRandomUUID)) :
               t \in Tenants, f \in Faults1 \cup {"uuid"}} :
        c.o.usedUUID => Fresh # {}}

UpdateTenantCalls ==
    {Call("UpdateTenant", id, EmptyUUID, t, EmptyApplication, f,
          UpdateTenant(id, t, tenant, application, f)) :
        id \in UUIDs, t \in Tenants, f \in Faults2}

ReadTenantCalls ==
    {Call("ReadTenant", id, EmptyUUID, EmptyTenant, EmptyApplication, f,
          ReadTenant(id, tenant, application, f)) : id \in UUIDs, f \in Faults1}

DeleteTenantCalls ==
    {Call("DeleteTenant", id, EmptyUUID, EmptyTenant, EmptyApplication, f,
          DeleteTenant(id, tenant, application, f)) : id \in UUIDs, f \in Faults2}

CreateApplicationCalls ==
    {c \in {Call("CreateApplication", id, EmptyUUID, EmptyTenant, a, f,
                 CreateApplication(id, a, tenant, application, f,
                                   GenerateRandomUUID)) :
               id \in UUIDs, a \in Applications, f \in Faults2 \cup {"uuid"}} :
        c.o.usedUUID => Fresh # {}}

UpdateApplicationCalls ==
    {Call("UpdateApplication", c[1], c[2], EmptyTenant, a, f,
          UpdateApplication(c[1], c[2], a, tenant, application, f)) :
        c \in UUIDs \X UUIDs, a \in Applications, f \in Faults3}

ReadApplicationCalls ==
    {Call("ReadApplication", c[1], c[2], EmptyTenant, EmptyApplication, f,
          ReadApplication(c[1], c[2], tenant, application, f)) :
        c \in UUIDs \X UUIDs, f \in Faults2}

ReadAllApplicationsCalls ==
    {Call("ReadAllApplications", id, EmptyUUID, EmptyTenant, EmptyApplication, f,
          ReadAllApplications(id, tenant, application, f, {})) :
        id \in UUIDs, f \in Faults1}
    \cup
    {Call("ReadAllApplications", id, EmptyUUID, EmptyTenant, EmptyApplication,
          "stmt2", ReadAllApplications(id, tenant, application, "stmt2", fetched)) :
        id \in UUIDs, fetched \in SUBSET application}

DeleteApplicationCalls ==
    {Call("DeleteApplication", c[1], c[2], EmptyTenant, EmptyApplication, f,
          DeleteApplication(c[1], c[2], tenant, application, f)) :
        c \in UUIDs \X UUIDs, f \in Faults3}

\* The calls that name an existing or a supposed tenant.
CallsOnTenant ==
    UpdateTenantCalls \cup ReadTenantCalls \cup DeleteTenantCalls
        \cup CreateApplicationCalls \cup UpdateApplicationCalls
        \cup ReadApplicationCalls \cup ReadAllApplicationsCalls
        \cup DeleteApplicationCalls

Calls == CreateTenantCalls \cup CallsOnTenant

HasTenantRow(tt, id) == \E r \in tt : r.tenant_id = UUIDBytes(id)
HasApplicationRow(at, tenantID, applicationID) ==
    \E r \in at : /\ r.tenant_id = UUIDBytes(tenantID)
                  /\ r.application_id = UUIDBytes(applicationID)

SessionAcquired(c) ==
    c.fault # "session" /\ ~(c.op = "CreateTenant" /\ c.fault = "uuid")

---------------------------------------------------------------------------
\* C1: every row of the application table has a tenant_id for which the
\* tenant table holds a row.
ReferentialIntegrity ==
    \A r \in application : \E tr \in tenant : tr.tenant_id = r.tenant_id

\* C2: for a tenant identifier with no row in the tenant table, ReadTenant,
\* UpdateTenant and DeleteTenant each return the tenant NotFound failure
\* (once the call has its session), and UpdateTenant inserts no row.
AbsentTenantNotFound ==
    \A c \in ReadTenantCalls \cup UpdateTenantCalls \cup DeleteTenantCalls :
        (~HasTenantRow(tenant, c.tenantID) /\ SessionAcquired(c))
        => /\ c.o.err = TenantNotFound(c.tenantID)
           /\ c.o.tenant = tenant
           /\ ~HasTenantRow(c.o.tenant, c.tenantID)

AbsentTenantNotFoundWitness ==
    \E c \in UpdateTenantCalls :
        /\ c.fault = "none"
        /\ tenant # {}
        /\ c.tenantID \in generated
        /\ ~HasTenantRow(tenant, c.tenantID)
        /\ c.o.err.kind = "TenantNotFound"

\* C3: a call that returns NotFound leaves both tables as they were; and
\* CreateApplication for a tenant with no row returns the tenant NotFound
\* failure and adds no application row.
NotFoundLeavesTables ==
    /\ \A c \in Calls :
           c.o.err.kind \in {"TenantNotFound", "ApplicationNotFound"}
           => c.o.tenant = tenant /\ c.o.application = application
    /\ \A c \in CreateApplicationCalls :
           (~HasTenantRow(tenant, c.tenantID) /\ SessionAcquired(c))
           => /\ c.o.err = TenantNotFound(c.tenantID)
              /\ c.o.application = application

NotFoundLeavesTablesWitness ==
    \E c \in UpdateApplicationCalls :
        /\ c.fault = "none"
        /\ HasTenantRow(tenant, c.tenantID)
        /\ application # {}
        /\ c.o.err.kind = "ApplicationNotFound"

\* C4: ReadTenant of a tenant that was created, then updated any number of
\* times and not deleted, succeeds and returns the record written last.
ReadYourLastWrite ==
    \A id \in UUIDs :
        written[id] # EmptyTenant
        => LET o == ReadTenant(id, tenant, application, "none")
           IN  o.err = Nil /\ o.value.tenant = written[id]

ReadYourLastWriteWitness ==
    \E id \in updatedTenants, other \in UUIDs :
        /\ written[id] # EmptyTenant
        /\ written[other] # EmptyTenant
        /\ written[other] # written[id]

\* C5: once DeleteTenant(T) has succeeded, every later call that names T and
\* has its session returns the tenant NotFound failure, also a read of an
\* application created under T before the delete.
DeletedTenantStaysNotFound ==
    \A c \in CallsOnTenant :
        (c.tenantID \in deletedTenants /\ SessionAcquired(c))
        => c.o.err = TenantNotFound(c.tenantID)

DeletedTenantStaysNotFoundWitness ==
    \E c \in ReadApplicationCalls :
        /\ c.fault = "none"
        /\ c.tenantID \in deletedTenants
        /\ HasApplicationRow(application, c.tenantID, c.applicationID)
        /\ c.o.err.kind = "TenantNotFound"

\* The mapping ReadAllApplications is to return for tenantID: the records of
\* exactly the application rows whose tenant_id is tenantID's.
ApplicationsOf(at, tenantID) ==
    LET ids == {id \in UUIDs : HasApplicationRow(at, tenantID, id)}
    IN  [id \in ids |->
            [Name |-> (CHOOSE r \in at :
                          /\ r.tenant_id = UUIDBytes(tenantID)
                          /\ r.application_id = UUIDBytes(id)).name]]

\* C6: for an existing tenant T, a successful CreateApplication(T, a)
\* returning id is followed by ReadApplication(T, id) returning a and by
\* ReadAllApplications(T) returning id -> a; and ReadAllApplications(T)
\* returns exactly the records of the application rows of T.
CreateThenReadApplication ==
    /\ \A c \in CreateApplicationCalls :
           c.o.err = Nil
           => LET read == ReadApplication(c.tenantID, c.o.value.id, c.o.tenant,
                                          c.o.application, "none")
                  all == ReadAllApplications(c.tenantID, c.o.tenant,
                                             c.o.application, "none", {})
              IN  /\ HasTenantRow(tenant, c.tenantID)
                  /\ read.err = Nil
                  /\ read.value.application = c.a
                  /\ all.err = Nil
                  /\ c.o.value.id \in DOMAIN all.value.applications
                  /\ all.value.applications[c.o.value.id] = c.a
                  /\ all.value.applications
                         = ApplicationsOf(c.o.application, c.tenantID)
    /\ \A c \in ReadAllApplicationsCalls :
           (c.fault = "none" /\ HasTenantRow(tenant, c.tenantID))
           => /\ c.o.err = Nil
              /\ c.o.value.applications = ApplicationsOf(application, c.tenantID)

\* An application created under one of two existing tenants.
CreateThenReadApplicationWitness ==
    \E id \in UUIDs, other \in UUIDs, appID \in UUIDs :
        /\ id # other
        /\ HasTenantRow(tenant, id)
        /\ HasTenantRow(tenant, other)
        /\ HasApplicationRow(application, id, appID)
        /\ ReadApplication(id, appID, tenant, application, "none").err = Nil
        /\ ReadAllApplications(other, tenant, application, "none", {}).err = Nil

\* C7: a successful DeleteApplication(T, A) removes the row (T, A) and
\* nothing else: the tenant table and the other application rows stay,
\* ReadApplication(T, A) then returns the application NotFound failure and
\* ReadAllApplications(T) no longer has A; the row stays away afterwards.
DeleteApplicationRemovesOneRow ==
    /\ \A c \in DeleteApplicationCalls :
           c.o.err = Nil
           => LET read == ReadApplication(c.tenantID, c.applicationID, c.o.tenant,
                                          c.o.application, "none")
                  all == ReadAllApplications(c.tenantID, c.o.tenant,
                                             c.o.application, "none", {})
              IN  /\ HasApplicationRow(application, c.tenantID, c.applicationID)
                  /\ c.o.tenant = tenant
                  /\ c.o.application =
                         {r \in application :
                             ~(/\ r.tenant_id = UUIDBytes(c.tenantID)
                               /\ r.application_id = UUIDBytes(c.applicationID))}
                  /\ read.err = ApplicationNotFound(c.tenantID, c.applicationID)
                  /\ all.err = Nil
                  /\ c.applicationID \notin DOMAIN all.value.applications
    /\ \A d \in deletedApps : ~HasApplicationRow(application, d[1], d[2])

\* An application deleted under a tenant that keeps another application.
DeleteApplicationRemovesOneRowWitness ==
    \E d \in deletedApps, appID \in UUIDs :
        /\ appID # d[2]
        /\ HasTenantRow(tenant, d[1])
        /\ HasApplicationRow(application, d[1], appID)
        /\ ~HasApplicationRow(application, d[1], d[2])

\* C8: a failure raised by session creation, by the identifier generator or
\* by a statement is what the call returns.
FailuresPropagated ==
    \A c \in Calls : c.o.raised # Nil => c.o.err = c.o.raised

\* The session events of one call: nothing, or one open, then statements,
\* then one close.
ScopedLog(log) ==
    \/ log = <<>>
    \/ /\ Len(log) >= 2
       /\ log[1] = "open"
       /\ log[Len(log)] = "close"
       /\ \A i \in 2..(Len(log) - 1) : log[i] = "query"

\* C9: a call that acquired a session has closed it when it returns, on
\* every return path, and executes no statement after the close; between
\* calls no session is open.
SessionsScoped ==
    /\ openSessions = 0
    /\ \A c \in Calls :
           /\ ScopedLog(c.o.log)
           /\ SessionAcquired(c) <=> c.o.log # <<>>

\* Calls have completed on each kind of return path: a row was written, an
\* identifier was taken without a row appearing, an application was deleted.
SessionsScopedWitness ==
    /\ openSessions = 0
    /\ tenant # {}
    /\ deletedApps # {}
    /\ \E c \in CreateApplicationCalls :
           c.fault = "uuid" /\ c.o.err = UUIDError /\ c.o.log # <<>>

\* C10 as stated: under any interleaving, a tenant row removed by
\* DeleteTenant and an application row removed by DeleteApplication never
\* come back, the updates adding no key.
DeletedStaysDeleted ==
    /\ \A id \in deletedTenants : ~HasTenantRow(tenant, id)
    /\ \A d \in deletedApps : ~HasApplicationRow(application, d[1], d[2])

\* C10 as amended: under any interleaving, UpdateTenant and UpdateApplication
\* add no key of their own: every tenant row was first inserted by a
\* CreateTenant, every application row by a CreateApplication, and an update
\* writes only a key its existence check found.  (A removed row can come
\* back, written by an update that passed its check before the delete.)
UpdatesAddNoNewKey ==
    /\ \A r \in tenant : \E id \in createdTenants : r.tenant_id = UUIDBytes(id)
    /\ \A r \in application :
           \E k \in createdApps : /\ r.tenant_id = UUIDBytes(k[1])
                                  /\ r.application_id = UUIDBytes(k[2])
    /\ \A p \in Procs :
           procs[p].pc = "insert"
           => /\ procs[p].op = "UpdateTenant"
                 => procs[p].tenantID \in createdTenants
              /\ procs[p].op = "UpdateApplication"
                 => <<procs[p].tenantID, procs[p].applicationID>> \in createdApps
              /\ procs[p].op = "CreateApplication"
                 => procs[p].tenantID \in createdTenants

\* A tenant row is back after DeleteTenant removed it, and no call is in
\* flight.
UpdatesAddNoNewKeyWitness ==
    /\ \E id \in deletedTenants : HasTenantRow(tenant, id)
    /\ \A p \in Procs : procs[p].pc = "idle"

====
